---- MODULE Spec2Model ----
(***************************************************************************)
(* A model of the book API: the User and Book tables of core/models.py,    *)
(* the two serializers of book/serializers.py and the BookViewSet of       *)
(* book/views.py.  Strings that the code takes apart (file names, e-mail   *)
(* addresses, storage paths) are sequences of one-character strings;       *)
(* strings that are only stored and compared are TLA+ strings.             *)
(***************************************************************************)
EXTENDS Integers, Sequences, FiniteSets, TLC

VARIABLES
    users,       \* the User table: id -> [email, password]
    books,       \* the Book table: id -> [user, title, ..., image]
    nextUserId,  \* the User table's auto-increment key
    nextBookId,  \* the Book table's auto-increment key
    nextUuid,    \* how many values uuid.uuid4() has returned so far
    uploads,     \* history: per stored image, the client's file name and the stored path
    reqs,        \* requests in flight between get_object() and save() (SpecConc only)
    clock,       \* counts the steps of the requests in flight (SpecConc only)
    last         \* the last call and its response

vars == <<users, books, nextUserId, nextBookId, nextUuid, uploads, reqs, clock, last>>

-----------------------------------------------------------------------------
(* Bounds of the model.                                                    *)

MaxUsers == 2
MaxBooks == 2
MaxUploads == 2

-----------------------------------------------------------------------------
(* Values.                                                                 *)

\* request.user of a request that carries no valid token (AnonymousUser)
Anonymous == 0

\* the first key of a table's auto-increment id column
FirstId == 1

\* a key that the request's data does not hold
Absent == "<absent>"

\* Book.image when the column is NULL
NoImage == <<>>

\* the values str(uuid.uuid4()) returns, in the order it returns them
UuidPool == <<"uuid-1", "uuid-2", "uuid-3", "uuid-4", "uuid-5", "uuid-6">>

\* what a request carries as its token: nothing, a key no Token row holds, or the
\* key of user u's token (written u)
NoCredential == 0
BadCredential == -1

UserIds == FirstId..MaxUsers
BookIds == FirstId..MaxBooks

-----------------------------------------------------------------------------
(* Python helpers the code calls.                                          *)

\* str.rfind(c), 1-based: the last index of c in p, 0 when there is none
RFind(p, c) ==
    LET hits == {i \in 1..Len(p) : p[i] = c}
    IN  IF hits = {} THEN 0 ELSE CHOOSE i \in hits : \A j \in hits : j <= i

\* os.path.splitext(p)[1]: from the last dot of the last path component on,
\* unless that component has only leading dots before it
splitext_ext(p) ==
    LET sepIndex == RFind(p, "/")
        dotIndex == RFind(p, ".")
    IN  IF /\ dotIndex > sepIndex
           /\ \E k \in (sepIndex + 1)..(dotIndex - 1) : p[k] # "."
        THEN SubSeq(p, dotIndex, Len(p))
        ELSE <<>>

\* os.path.join(a, b) for a relative b
path_join(a, b) == a \o <<"/">> \o b

\* str.lower() on the characters the model uses
Lower(c) == IF c = "X" THEN "x" ELSE IF c = "A" THEN "a" ELSE c

\* BaseUserManager.normalize_email: lower-case what follows the last "@"
normalize_email(email) ==
    LET at == RFind(email, "@")
    IN  IF at = 0 THEN email
        ELSE [i \in 1..Len(email) |-> IF i > at THEN Lower(email[i]) ELSE email[i]]

\* mutant of set_password: the raw password is stored as given
set_password_plain(raw) == raw

\* AbstractBaseUser.set_password: make_password(raw), a salted one-way hash,
\* or an unusable password when raw is None
NoPassword == <<"<None>">>
set_password(raw) ==
    IF raw = NoPassword THEN <<"!", "unusable">> ELSE <<"pbkdf2_sha256$", "salt$">> \o raw

-----------------------------------------------------------------------------
(* core/models.py                                                          *)

\* mutant of book_image_file_path: the client's file name is kept
book_image_file_path_keeps_name(uuid, filename) ==
    path_join(path_join(<<"uploads">>, <<"book">>), filename)

\* book_image_file_path(instance, filename), uuid being what uuid.uuid4() returned
book_image_file_path(uuid, filename) ==
    LET ext == splitext_ext(filename)
        name == <<uuid>> \o ext
    IN  path_join(path_join(<<"uploads">>, <<"book">>), name)

\* email = models.EmailField(max_length=255, unique=True)
email_taken(email) == \E u \in DOMAIN users : users[u].email = email

\* the row create_user saves
new_user(email, password) ==
    [email |-> normalize_email(email), password |-> set_password(password)]

\* mutant of cascade: on_delete=DO_NOTHING
cascade_nothing(u) == {}

\* Book.user = ForeignKey(User, on_delete=CASCADE): the books that go with user u
cascade(u) == {b \in DOMAIN books : books[b].user = u}

\* a function without the keys in gone
Without(f, gone) == [k \in DOMAIN f \ gone |-> f[k]]

\* a function with one more key
With(f, k, v) == [j \in DOMAIN f \cup {k} |-> IF j = k THEN v ELSE f[j]]

-----------------------------------------------------------------------------
(* Request data.  A request's data is a record over every key the model    *)
(* sends; a key the request does not hold is Absent (for image: kind       *)
(* "absent", for user: Anonymous).                                         *)

\* the image entry of a request: nothing, null (JSON null, or "" in a form),
\* a string that is no file, or a file with the client's name
img_absent == [kind |-> "absent", name |-> <<>>, decodable |-> FALSE]
img_null == [kind |-> "null", name |-> <<>>, decodable |-> FALSE]
img_text == [kind |-> "text", name |-> <<"n", "o", "t">>, decodable |-> FALSE]
img_file(name, ok) == [kind |-> "file", name |-> name, decodable |-> ok]

jpg == <<"a", ".", "j", "p", "g">>
png == <<"a", ".", "b", ".", "p", "n", "g">>
noext == <<"a", "j", "p", "g">>
dotfile == <<".", "j", "p", "g">>

Images ==
    {img_absent, img_null, img_text, img_file(jpg, TRUE), img_file(png, TRUE),
     img_file(jpg, FALSE), img_file(noext, TRUE), img_file(dotfile, TRUE)}

no_data ==
    [title |-> Absent, author |-> Absent, release_date |-> Absent, genre |-> Absent,
     description |-> Absent, image |-> img_absent, user |-> Anonymous]

full_1 ==
    [no_data EXCEPT !.title = "T1", !.author = "A1", !.release_date = "2030-09-12",
                    !.genre = "G1", !.description = "D1"]

full_2 ==
    [no_data EXCEPT !.title = "T2", !.author = "A2", !.release_date = "2000-08-14",
                    !.genre = "G2", !.description = "D2"]

\* what the model sends to create, update and partial_update: a full record, a
\* title alone, a full record that names an owner
BookPayloads ==
    {full_1, [no_data EXCEPT !.title = "T2"]}
    \cup {[full_2 EXCEPT !.user = u] : u \in UserIds}

\* what the model sends to upload_image: no image, a string, a file
ImagePayloads ==
    {no_data, [no_data EXCEPT !.image = img_text],
     [no_data EXCEPT !.image = img_file(jpg, TRUE)]}

\* the wider sets the image endpoint is tried with (SpecImage)
AllImagePayloads ==
    {[no_data EXCEPT !.image = i] : i \in Images}
    \cup {[full_2 EXCEPT !.image = img_file(jpg, TRUE), !.user = u] : u \in UserIds}

PatchImagePayloads ==
    {full_1, [full_1 EXCEPT !.release_date = "notadate"], [no_data EXCEPT !.title = ""],
     [no_data EXCEPT !.image = img_file(png, TRUE)], [no_data EXCEPT !.image = img_null]}

-----------------------------------------------------------------------------
(* book/serializers.py                                                     *)

TextFields == {"title", "author", "genre", "description"}

\* mutant of BookSerializer_fields: "user" is listed among the fields
BookSerializer_fields_with_user ==
    {"title", "author", "genre", "description", "release_date", "image", "user"}

\* BookSerializer.Meta.fields without the read-only id
BookSerializer_fields == TextFields \cup {"release_date", "image"}

\* BookImageSerializer.Meta.fields without the read-only id
BookImageSerializer_fields == {"image"}

\* BookSerializer's image: the model field is null=True, so not required
BookSerializer_image_required == FALSE

\* BookImageSerializer.Meta.extra_kwargs: 'required': 'True', a non-empty string
BookImageSerializer_image_required == TRUE

\* Book.image is null=True, so both serializers' image field has allow_null
image_allow_null == TRUE

\* the file extensions ImageField accepts
ImageExts == {<<".", "j", "p", "g">>, <<".", "p", "n", "g">>}

\* DateField: the ISO date a string stands for
parse_date(s) ==
    IF s = "2030-09-12" THEN <<2030, 9, 12>>
    ELSE IF s = "2000-08-14" THEN <<2000, 8, 14>>
    ELSE <<>>

\* a CharField / TextField of the model (blank=False, no default)
text_valid(v, partial) == IF v = Absent THEN partial ELSE v # ""

date_valid(v, partial) == IF v = Absent THEN partial ELSE parse_date(v) # <<>>

\* ImageField: Field.validate_empty_values, then the file must decode
image_valid(img, required, partial) ==
    CASE img.kind = "absent" -> partial \/ ~required
      [] img.kind = "null" -> image_allow_null
      [] img.kind = "text" -> FALSE
      [] OTHER -> img.decodable /\ splitext_ext(img.name) \in ImageExts

\* serializer.is_valid() of a serializer with these fields
is_valid(fields, data, imageRequired, partial) ==
    /\ \A f \in TextFields \cap fields : text_valid(data[f], partial)
    /\ "release_date" \in fields => date_valid(data.release_date, partial)
    /\ "image" \in fields => image_valid(data.image, imageRequired, partial)

\* the fields serializer.validated_data holds
validated_keys(fields, data) ==
    {f \in fields \ {"image", "user"} : data[f] # Absent}
    \cup {f \in fields \cap {"image"} : data.image.kind # "absent"}
    \cup {f \in fields \cap {"user"} : data.user # Anonymous}

\* whether saving the validated data stores a file (FileField.pre_save calls upload_to)
stores_file(fields, data) == "image" \in fields /\ data.image.kind = "file"

\* the value save() gives field f
field_value(f, data, uuid) ==
    CASE f = "release_date" -> parse_date(data.release_date)
      [] f = "image" -> IF data.image.kind = "file"
                        THEN book_image_file_path(uuid, data.image.name)
                        ELSE NoImage
      [] OTHER -> data[f]

\* ModelSerializer.update(instance, validated_data): setattr for each validated field
serializer_update(instance, fields, data, uuid) ==
    [f \in DOMAIN instance |->
        IF f \in validated_keys(fields, data) THEN field_value(f, data, uuid)
        ELSE instance[f]]

\* mutant of save_columns: save(update_fields=...) writes the validated fields alone
save_columns_validated(fields, data) == validated_keys(fields, data)

\* instance.save(): Django writes every column of the row
save_columns(fields, data) == BookSerializer_fields \cup {"user"}

\* the row the UPDATE leaves: the columns written come from the instance
written_row(row, instance, columns) ==
    [f \in DOMAIN row |-> IF f \in columns THEN instance[f] ELSE row[f]]

-----------------------------------------------------------------------------
(* book/views.py                                                           *)

\* TokenAuthentication: the user whose token the request carries
authenticate(cred) == IF cred \in DOMAIN users THEN cred ELSE Anonymous

\* mutant of has_permission: permission_classes = [AllowAny]
has_permission_any(user) == TRUE

\* permission_classes = [IsAuthenticated]
has_permission(user) == user # Anonymous

\* .order_by("-id")
RECURSIVE order_by_desc_id(_)
order_by_desc_id(ids) ==
    IF ids = {} THEN <<>>
    ELSE LET m == CHOOSE i \in ids : \A j \in ids : j <= i
         IN  <<m>> \o order_by_desc_id(ids \ {m})

\* mutant of filter_user: the queryset is not filtered
filter_user_all(user) == DOMAIN books

\* .filter(user=user)
filter_user(user) == {b \in DOMAIN books : books[b].user = user}

\* mutant of get_queryset: order_by("id")
RECURSIVE order_by_asc_id(_)
order_by_asc_id(ids) ==
    IF ids = {} THEN <<>>
    ELSE LET m == CHOOSE i \in ids : \A j \in ids : i <= j
         IN  <<m>> \o order_by_asc_id(ids \ {m})

get_queryset_ascending(user) ==
    order_by_asc_id({b \in DOMAIN books : books[b].user = user})

\* BookViewSet.get_queryset
get_queryset(user) == order_by_desc_id(filter_user(user))

\* GenericAPIView.get_object on get_queryset(): is there a row with this pk
has_object(user, pk) == \E i \in 1..Len(get_queryset(user)) : get_queryset(user)[i] = pk

\* mutant of perform_create: serializer.save() takes the owner the data names
perform_create_data_owner(user, data) ==
    [user |-> IF data.user # Anonymous THEN data.user ELSE user,
     title |-> data.title, author |-> data.author,
     release_date |-> parse_date(data.release_date), genre |-> data.genre,
     description |-> data.description, image |-> NoImage]

\* BookViewSet.perform_create: serializer.save(user=self.request.user)
perform_create(user, data) ==
    LET blank == [user |-> user, title |-> "", author |-> "", release_date |-> <<>>,
                  genre |-> "", description |-> "", image |-> NoImage]
        uuid == UuidPool[nextUuid + 1]
        row == serializer_update(blank, BookSerializer_fields, data, uuid)
    IN  [row EXCEPT !.user = user]

\* the call (what it is, who calls, on which id, with which owner and image in its
\* data) and the response (status and body)
Response(op, cred, pk, data, status, body) ==
    [op |-> op, cred |-> cred, pk |-> pk, owner_key |-> data.user, image |-> data.image,
     status |-> status, body |-> body]

Unchanged_db == UNCHANGED <<users, books, nextUserId, nextBookId, nextUuid, uploads>>

\* the history of stored images, after a save of data that may hold a file
record_upload(fields, data) ==
    IF stores_file(fields, data)
    THEN /\ nextUuid < MaxUploads
         /\ nextUuid' = nextUuid + 1
         /\ uploads' = Append(uploads,
                [name |-> data.image.name,
                 path |-> book_image_file_path(UuidPool[nextUuid + 1], data.image.name)])
    ELSE UNCHANGED <<nextUuid, uploads>>

\* BookViewSet.get_serializer_class: the writable fields of the action's serializer
get_serializer_fields(op) ==
    IF op = "upload_image" THEN BookImageSerializer_fields ELSE BookSerializer_fields

\* whether the action's serializer requires the image
get_serializer_image_required(op) ==
    IF op = "upload_image" THEN BookImageSerializer_image_required
    ELSE BookSerializer_image_required

\* UpdateModelMixin: PATCH passes partial=True
is_partial(op) == op = "partial_update"

\* serializer.is_valid() of the action's serializer
request_valid(op, data) ==
    is_valid(get_serializer_fields(op), data, get_serializer_image_required(op),
             is_partial(op))

\* serializer.save() on the instance get_object() returned, against the stored row
saved_row(row, instance, op, data, uuid) ==
    written_row(row,
                serializer_update(instance, get_serializer_fields(op), data, uuid),
                save_columns(get_serializer_fields(op), data))

\* update, partial_update and upload_image: get_object(), is_valid(), save()
edit(op, cred, pk, data) ==
    LET user == authenticate(cred)
        uuid == UuidPool[nextUuid + 1]
    IN  IF ~has_permission(user)
        THEN /\ last' = Response(op, cred, pk, data, "401", <<>>)
             /\ Unchanged_db
        ELSE IF ~has_object(user, pk)
        THEN /\ last' = Response(op, cred, pk, data, "404", <<>>)
             /\ Unchanged_db
        ELSE IF ~request_valid(op, data)
        THEN /\ last' = Response(op, cred, pk, data, "400", <<>>)
             /\ Unchanged_db
        ELSE /\ record_upload(get_serializer_fields(op), data)
             /\ books' = [books EXCEPT ![pk] = saved_row(books[pk], books[pk], op, data, uuid)]
             /\ last' = Response(op, cred, pk, data, "200", <<pk>>)
             /\ UNCHANGED <<users, nextUserId, nextBookId>>

\* GET /books/
List(cred) ==
    LET user == authenticate(cred)
    IN  /\ last' = IF has_permission(user)
                   THEN Response("list", cred, 0, no_data, "200", get_queryset(user))
                   ELSE Response("list", cred, 0, no_data, "401", <<>>)
        /\ Unchanged_db
        /\ UNCHANGED <<reqs, clock>>

\* POST /books/
Create(cred, data) ==
    LET user == authenticate(cred)
    IN  /\ IF ~has_permission(user)
           THEN /\ last' = Response("create", cred, 0, data, "401", <<>>)
                /\ Unchanged_db
           ELSE IF ~is_valid(BookSerializer_fields, data, BookSerializer_image_required, FALSE)
           THEN /\ last' = Response("create", cred, 0, data, "400", <<>>)
                /\ Unchanged_db
           ELSE /\ nextBookId <= MaxBooks
                /\ record_upload(BookSerializer_fields, data)
                /\ books' = With(books, nextBookId, perform_create(user, data))
                /\ nextBookId' = nextBookId + 1
                /\ last' = Response("create", cred, 0, data, "201", <<nextBookId>>)
                /\ UNCHANGED <<users, nextUserId>>
        /\ UNCHANGED <<reqs, clock>>

\* GET /books/{pk}/
Retrieve(cred, pk) ==
    LET user == authenticate(cred)
    IN  /\ last' = IF ~has_permission(user)
                   THEN Response("retrieve", cred, pk, no_data, "401", <<>>)
                   ELSE IF ~has_object(user, pk)
                   THEN Response("retrieve", cred, pk, no_data, "404", <<>>)
                   ELSE Response("retrieve", cred, pk, no_data, "200", <<pk>>)
        /\ Unchanged_db
        /\ UNCHANGED <<reqs, clock>>

\* PUT /books/{pk}/
Update(cred, pk, data) ==
    /\ edit("update", cred, pk, data)
    /\ UNCHANGED <<reqs, clock>>

\* PATCH /books/{pk}/
PartialUpdate(cred, pk, data) ==
    /\ edit("partial_update", cred, pk, data)
    /\ UNCHANGED <<reqs, clock>>

\* DELETE /books/{pk}/
Destroy(cred, pk) ==
    LET user == authenticate(cred)
    IN  /\ IF ~has_permission(user)
           THEN /\ last' = Response("destroy", cred, pk, no_data, "401", <<>>)
                /\ books' = books
           ELSE IF ~has_object(user, pk)
           THEN /\ last' = Response("destroy", cred, pk, no_data, "404", <<>>)
                /\ books' = books
           ELSE /\ last' = Response("destroy", cred, pk, no_data, "204", <<>>)
                /\ books' = Without(books, {pk})
        /\ UNCHANGED <<users, nextUserId, nextBookId, nextUuid, uploads, reqs, clock>>

\* POST /books/{pk}/upload-image/
UploadImage(cred, pk, data) ==
    /\ edit("upload_image", cred, pk, data)
    /\ UNCHANGED <<reqs, clock>>

-----------------------------------------------------------------------------
(* core/models.py: the User table                                          *)

a_X == <<"a", "@", "X">>
A_x == <<"A", "@", "x">>
a_x == <<"a", "@", "x">>
b_x == <<"b", "@", "x">>
NoEmail == <<"<None>">>

Emails == {<<>>, NoEmail, a_X, a_x, A_x}
pw == <<"p", "w">>
Passwords == {NoPassword, pw}

\* Python's "not email": None and "" are false
falsy(email) == email = <<>> \/ email = NoEmail

\* what "if not email: raise ..." raises
create_user_error == "ValueError"

\* UserManager.create_user(email, password)
CreateUser(email, password) ==
    /\ IF falsy(email)
       THEN /\ last' = Response("create_user", 0, 0, no_data, create_user_error, <<email, password>>)
            /\ UNCHANGED <<users, nextUserId>>
       ELSE IF email_taken(normalize_email(email))
       THEN /\ last' = Response("create_user", 0, 0, no_data, "IntegrityError", <<email, password>>)
            /\ UNCHANGED <<users, nextUserId>>
       ELSE /\ nextUserId <= MaxUsers
            /\ users' = With(users, nextUserId, new_user(email, password))
            /\ nextUserId' = nextUserId + 1
            /\ last' = Response("create_user", 0, nextUserId, no_data, "ok", <<email, password>>)
    /\ UNCHANGED <<books, nextBookId, nextUuid, uploads, reqs, clock>>

\* user.delete(): the books that reference the user go with it, and the call
\* reports them
DeleteUser(u) ==
    /\ u \in DOMAIN users
    /\ users' = Without(users, {u})
    /\ books' = Without(books, cascade(u))
    /\ last' = Response("delete_user", 0, u, no_data, "ok", order_by_desc_id(cascade(u)))
    /\ UNCHANGED <<nextUserId, nextBookId, nextUuid, uploads, reqs, clock>>

-----------------------------------------------------------------------------
(* The API, one request at a time.                                         *)

Credentials == {NoCredential, BadCredential} \cup UserIds

no_call == Response("none", 0, 0, no_data, "", <<>>)

Init ==
    /\ users = <<>>
    /\ books = <<>>
    /\ nextUserId = FirstId
    /\ nextBookId = FirstId
    /\ nextUuid = 0
    /\ uploads = <<>>
    /\ reqs = <<>>
    /\ clock = 0
    /\ last = no_call

Next ==
    \/ \E e \in {a_x, b_x} : CreateUser(e, pw)
    \/ \E u \in UserIds : DeleteUser(u)
    \/ \E c \in Credentials : List(c)
    \/ \E c \in Credentials, d \in BookPayloads : Create(c, d)
    \/ \E c \in Credentials, pk \in BookIds : Retrieve(c, pk)
    \/ \E c \in Credentials, pk \in BookIds, d \in BookPayloads : Update(c, pk, d)
    \/ \E c \in Credentials, pk \in BookIds, d \in BookPayloads : PartialUpdate(c, pk, d)
    \/ \E c \in Credentials, pk \in BookIds : Destroy(c, pk)
    \/ \E c \in Credentials, pk \in BookIds, d \in ImagePayloads : UploadImage(c, pk, d)

Spec == Init /\ [][Next]_vars

-----------------------------------------------------------------------------
(* The User table alone, with every e-mail and password of the model.      *)

NextUsers ==
    \/ \E e \in Emails, p \in Passwords : CreateUser(e, p)
    \/ \E u \in UserIds : DeleteUser(u)

SpecUsers == Init /\ [][NextUsers]_vars

-----------------------------------------------------------------------------
(* One owner and the image endpoint, with every image of the model.        *)

NextImage ==
    \/ CreateUser(a_x, pw)
    \/ \E c \in UserIds : Create(c, full_1)
    \/ \E c \in UserIds, pk \in BookIds, d \in PatchImagePayloads : PartialUpdate(c, pk, d)
    \/ \E c \in UserIds, pk \in BookIds, d \in AllImagePayloads : UploadImage(c, pk, d)

SpecImage == Init /\ [][NextImage]_vars

-----------------------------------------------------------------------------
(* Two requests of one user on one book, each a get_object() and, in a     *)
(* later step, is_valid() and save().                                      *)

Slots == {1, 2}

\* the user and the book the two requests are about: the first of each table
the_user == FirstId
the_book == FirstId

idle == [stage |-> "idle", op |-> "", data |-> no_data, instance |-> <<>>,
         loadedAt |-> 0, savedAt |-> 0, uuid |-> "", status |-> ""]

\* the edits the two requests make
ConcRequests ==
    {<<"update", full_2>>, <<"partial_update", [no_data EXCEPT !.title = "T2"]>>,
     <<"partial_update", [no_data EXCEPT !.description = "D2"]>>,
     <<"upload_image", [no_data EXCEPT !.image = img_file(jpg, TRUE)]>>,
     <<"upload_image", no_data>>}

\* the view up to get_object(): the request holds the row as it is now
Load(r, op, data) ==
    /\ reqs[r].stage = "idle"
    /\ has_permission(authenticate(the_user))
    /\ has_object(authenticate(the_user), the_book)
    /\ clock' = clock + 1
    /\ reqs' = [reqs EXCEPT ![r] = [idle EXCEPT !.stage = "loaded", !.op = op, !.data = data,
                                        !.instance = books[the_book],
                                        !.loadedAt = clock + 1]]
    /\ UNCHANGED <<users, books, nextUserId, nextBookId, nextUuid, uploads, last>>

\* the view from is_valid() on: save() writes the instance the request holds
Save(r) ==
    LET q == reqs[r]
        uuid == UuidPool[nextUuid + 1]
    IN  /\ q.stage = "loaded"
        /\ clock' = clock + 1
        /\ IF ~request_valid(q.op, q.data)
           THEN /\ reqs' = [reqs EXCEPT ![r].stage = "done", ![r].status = "400",
                                        ![r].savedAt = clock + 1]
                /\ last' = Response(q.op, the_user, the_book, q.data, "400", <<>>)
                /\ UNCHANGED <<books, nextUuid, uploads>>
           ELSE /\ record_upload(get_serializer_fields(q.op), q.data)
                /\ books' = [books EXCEPT ![the_book] =
                                saved_row(books[the_book], q.instance, q.op, q.data, uuid)]
                /\ reqs' = [reqs EXCEPT ![r].stage = "done", ![r].status = "200",
                                        ![r].savedAt = clock + 1, ![r].uuid = uuid]
                /\ last' = Response(q.op, the_user, the_book, q.data, "200", <<the_book>>)
        /\ UNCHANGED <<users, nextUserId, nextBookId>>

\* the database after create_user(a@x, pw) and create(full_1) by that user
InitConc ==
    /\ users = (the_user :> new_user(a_x, pw))
    /\ books = (the_book :> [user |-> the_user, title |-> "T1", author |-> "A1",
                             release_date |-> <<2030, 9, 12>>, genre |-> "G1",
                             description |-> "D1", image |-> NoImage])
    /\ nextUserId = FirstId + 1
    /\ nextBookId = FirstId + 1
    /\ nextUuid = 0
    /\ uploads = <<>>
    /\ reqs = [r \in Slots |-> idle]
    /\ clock = 0
    /\ last = Response("create", the_user, 0, full_1, "201", <<the_book>>)

NextConc ==
    \/ \E r \in Slots, q \in ConcRequests : Load(r, q[1], q[2])
    \/ \E r \in Slots : Save(r)

SpecConc == InitConc /\ [][NextConc]_vars

-----------------------------------------------------------------------------
(* Properties.                                                             *)

BookOps ==
    {"list", "create", "retrieve", "update", "partial_update", "destroy", "upload_image"}

\* the operations on one book, named by its id
ObjectOps == {"retrieve", "update", "partial_update", "destroy", "upload_image"}

Range(f) == {f[i] : i \in DOMAIN f}

\* C1: list() called by an authenticated user returns 200 with exactly the ids of the
\* books that user owns, every one of them and no other user's, in strictly
\* descending order of id.
C1_ListOwnBooksNewestFirst ==
    (last.op = "list" /\ last.cred \in DOMAIN users) =>
        /\ last.status = "200"
        /\ Range(last.body) = {b \in DOMAIN books : books[b].user = last.cred}
        /\ \A i, j \in 1..Len(last.body) : i < j => last.body[i] > last.body[j]

\* a list that leaves out another user's stored book
C1_Witness ==
    /\ last.op = "list"
    /\ last.status = "200"
    /\ Len(last.body) = 1
    /\ \E b \in DOMAIN books : books[b].user # last.cred

\* C2: retrieve, update, partial_update, destroy and upload_image called by an
\* authenticated user on a book of another user answer 404 with an empty body and
\* leave every table as it was, which is what they answer for an id no book has.
C2_OtherUsersBookIsNotFound ==
    [][(last'.op \in ObjectOps /\ last'.cred \in DOMAIN users
        /\ (last'.pk \in DOMAIN books => books[last'.pk].user # last'.cred))
       => /\ last'.status = "404"
          /\ last'.body = <<>>
          /\ books' = books
          /\ users' = users
          /\ uploads' = uploads]_vars

\* an image sent by an authenticated user to a stored book of another user
C2_Witness ==
    /\ last.op = "upload_image"
    /\ last.status = "404"
    /\ last.image = img_file(jpg, TRUE)
    /\ last.cred \in DOMAIN users
    /\ last.pk \in DOMAIN books
    /\ books[last.pk].user # last.cred

\* C3: a create that succeeds adds one book, under a new id, whose owner is the
\* caller, whatever owner the data names; no step adds a book in another way.
C3_CreatedBookIsOwnedByCaller ==
    [][/\ (last'.op = "create" /\ last'.status = "201") =>
            /\ last'.cred \in DOMAIN users
            /\ DOMAIN books' = DOMAIN books \cup {last'.body[1]}
            /\ last'.body[1] \notin DOMAIN books
            /\ books'[last'.body[1]].user = last'.cred
       /\ \A b \in DOMAIN books' \ DOMAIN books :
            last'.op = "create" /\ books'[b].user = last'.cred]_vars

\* a book created from data that names another existing user as its owner
C3_Witness ==
    /\ last.op = "create"
    /\ last.status = "201"
    /\ last.owner_key \in DOMAIN users
    /\ last.owner_key # last.cred
    /\ books[last.body[1]].user = last.cred

\* C4: a request to any book endpoint with no token, with a token no row holds, or
\* with the token of a user that is no longer stored answers 401 and leaves every
\* table as it was.
C4_UnauthenticatedIs401 ==
    [][(last'.op \in BookOps /\ last'.cred \notin DOMAIN users)
       => /\ last'.status = "401"
          /\ last'.body = <<>>
          /\ books' = books
          /\ users' = users
          /\ uploads' = uploads]_vars

\* a valid image sent without a token while books are stored
C4_Witness ==
    /\ last.op = "upload_image"
    /\ last.cred = NoCredential
    /\ last.status = "401"
    /\ last.image = img_file(jpg, TRUE)
    /\ last.pk \in DOMAIN books

\* C8: every stored book's owner is a stored user, and deleting a user removes that
\* user's books and no other book.
C8_OwnerExistsAndDeleteCascades ==
    /\ [](\A b \in DOMAIN books : books[b].user \in DOMAIN users)
    /\ [][last'.op = "delete_user" =>
            /\ DOMAIN users' = DOMAIN users \ {last'.pk}
            /\ DOMAIN books' = {b \in DOMAIN books : books[b].user # last'.pk}
            /\ \A b \in DOMAIN books' : books'[b] = books[b]]_vars

\* a user was deleted who owned a book, and another user's book is still stored
C8_Witness ==
    /\ last.op = "delete_user"
    /\ last.body # <<>>
    /\ books # <<>>

\* C10: no step changes the owner of a book that stays stored, and a book that is
\* added gets an id no book had before.
C10_OwnerNeverChanges ==
    [][/\ \A b \in DOMAIN books \cap DOMAIN books' : books'[b].user = books[b].user
       /\ \A b \in DOMAIN books' \ DOMAIN books : b = nextBookId /\ nextBookId' > b
       /\ nextBookId' >= nextBookId]_vars

\* an update by the owner whose data names another existing user as the owner
C10_Witness ==
    /\ last.op = "update"
    /\ last.status = "200"
    /\ last.owner_key \in DOMAIN users
    /\ last.owner_key # last.cred
    /\ books[last.pk].user = last.cred

\* an image entry that is missing or is no decodable image
bad_image(img) == img.kind \in {"absent", "null", "text"} \/ ~img.decodable

\* C5: upload_image called by the owner with data whose image is absent or is not a
\* decodable image answers 400 and leaves the book, its image included, as it was.
C5_BadImageIs400 ==
    [][(/\ last'.op = "upload_image"
        /\ last'.cred \in DOMAIN users
        /\ last'.pk \in DOMAIN books
        /\ books[last'.pk].user = last'.cred
        /\ bad_image(last'.image))
       => (last'.status = "400" /\ books' = books)]_vars

\* C5, the cases the code does reject: an absent image, a string, and a file that
\* does not decode answer 400 and leave the books as they were.
C5_RejectedImagesLeaveBook ==
    [][(/\ last'.op = "upload_image"
        /\ last'.cred \in DOMAIN users
        /\ last'.pk \in DOMAIN books
        /\ books[last'.pk].user = last'.cred
        /\ bad_image(last'.image)
        /\ last'.image.kind # "null")
       => (last'.status = "400" /\ books' = books)]_vars

\* the name from its last dot on; nothing when it has no dot
suffix_from_last_dot(name) ==
    IF RFind(name, ".") = 0 THEN <<>> ELSE SubSeq(name, RFind(name, "."), Len(name))

\* C6: every stored image's path is uploads/book/ followed by the uuid drawn for it
\* and the extension of the client's file name; the name under uploads/book/ is not
\* the client's; no two stored images have the same path; and a book's image is the
\* path of the image last stored for it.
C6_StoredPathIsFreshUuidPlusExtension ==
    /\ \A i \in 1..Len(uploads) :
        LET path == uploads[i].path
        IN  /\ Len(path) > 5
            /\ SubSeq(path, 1, 4) = <<"uploads", "/", "book", "/">>
            /\ path[5] = UuidPool[i]
            /\ SubSeq(path, 6, Len(path)) = suffix_from_last_dot(uploads[i].name)
            /\ SubSeq(path, 5, Len(path)) # uploads[i].name
    /\ \A i, j \in 1..Len(uploads) : i # j => uploads[i].path # uploads[j].path
    /\ \A b \in DOMAIN books :
        books[b].image = NoImage \/ \E i \in 1..Len(uploads) : uploads[i].path = books[b].image
    /\ (last.op \in {"upload_image", "partial_update"} /\ last.status = "200"
        /\ last.image.kind = "file")
       => /\ uploads # <<>>
          /\ uploads[Len(uploads)].name = last.image.name
          /\ books[last.pk].image = uploads[Len(uploads)].path

\* the same file uploaded twice to one book
C6_Witness ==
    /\ Len(uploads) = 2
    /\ uploads[1].name = uploads[2].name
    /\ last.op = "upload_image"
    /\ last.status = "200"
    /\ books[last.pk].image = uploads[2].path
    /\ Cardinality(DOMAIN books) = 1

\* C7 as stated: create_user with an empty or missing e-mail fails with
\* ValidationError and stores no user; with any other e-mail it stores a user whose
\* password is not the one given.
C7_EmptyEmailIsValidationError ==
    [][last'.op = "create_user" =>
        IF falsy(last'.body[1])
        THEN last'.status = "ValidationError" /\ users' = users
        ELSE /\ last'.status = "ok"
             /\ DOMAIN users' = DOMAIN users \cup {last'.pk}
             /\ last'.pk \notin DOMAIN users
             /\ users'[last'.pk].password # last'.body[2]]_vars

\* C7 as the code has it: create_user with an empty or missing e-mail raises
\* ValueError and stores no user; with an e-mail whose normalised form is already
\* stored it raises IntegrityError and stores no user; otherwise it stores one more
\* user, under the normalised e-mail, whose password is not the one given.
C7_EmptyEmailIsValueError ==
    [][last'.op = "create_user" =>
        LET email == last'.body[1]
            password == last'.body[2]
        IN  IF falsy(email)
            THEN last'.status = "ValueError" /\ users' = users
            ELSE IF \E u \in DOMAIN users : users[u].email = normalize_email(email)
            THEN last'.status = "IntegrityError" /\ users' = users
            ELSE /\ last'.status = "ok"
                 /\ DOMAIN users' = DOMAIN users \cup {last'.pk}
                 /\ last'.pk \notin DOMAIN users
                 /\ \A u \in DOMAIN users : users'[u] = users[u]
                 /\ users'[last'.pk].email = normalize_email(email)
                 /\ users'[last'.pk].password # password
                 /\ users'[last'.pk].password # <<>>]_vars

\* an empty e-mail was refused while a user with a hashed password is stored
C7_Witness ==
    /\ last.op = "create_user"
    /\ last.status = "ValueError"
    /\ last.body[1] = <<>>
    /\ \E u \in DOMAIN users : users[u].password = set_password(pw)

\* the two requests are done and both saved
both_saved == \A r \in Slots : reqs[r].stage = "done" /\ reqs[r].status = "200"

\* the request that saved last, and the other one
last_saver == CHOOSE r \in Slots : \A o \in Slots : reqs[o].savedAt <= reqs[r].savedAt
first_saver == CHOOSE r \in Slots : r # last_saver

\* the fields a request set, and the value it gave one of them
set_by(r) == validated_keys(get_serializer_fields(reqs[r].op), reqs[r].data)
value_by(r, f) ==
    IF f = "image" /\ reqs[r].data.image.kind = "file"
    THEN <<"uploads", "/", "book", "/", reqs[r].uuid>>
         \o suffix_from_last_dot(reqs[r].data.image.name)
    ELSE IF f = "image" THEN NoImage
    ELSE IF f = "release_date" THEN parse_date(reqs[r].data.release_date)
    ELSE reqs[r].data[f]

\* the columns of a book other than its id
BookColumns == {"user", "title", "author", "release_date", "genre", "description", "image"}

\* the book before the two requests
book_before ==
    [user |-> the_user, title |-> "T1", author |-> "A1", release_date |-> <<2030, 9, 12>>,
     genre |-> "G1", description |-> "D1", image |-> NoImage]

\* C9 as stated: after both requests have saved, a field the last saver set holds its
\* value, and any other field holds what the first saver left: its value if it set
\* the field, the value from before both requests if not.
C9_FieldsMerge ==
    both_saved =>
        \A f \in BookColumns :
            books[the_book][f] =
                IF f \in set_by(last_saver) THEN value_by(last_saver, f)
                ELSE IF f \in set_by(first_saver) THEN value_by(first_saver, f)
                ELSE book_before[f]

\* C9 as the code has it: after both requests have saved, a field the last saver set
\* holds its value, and any other field holds what the last saver read: the first
\* saver's value if that one set the field and saved before the last saver read the
\* book, the value from before both requests otherwise.
C9_LastSaverWritesWholeRow ==
    both_saved =>
        \A f \in BookColumns :
            books[the_book][f] =
                IF f \in set_by(last_saver) THEN value_by(last_saver, f)
                ELSE IF /\ f \in set_by(first_saver)
                        /\ reqs[first_saver].savedAt < reqs[last_saver].loadedAt
                THEN value_by(first_saver, f)
                ELSE book_before[f]

\* both requests read the book before either saved, and set different fields
C9_Witness ==
    /\ both_saved
    /\ reqs[last_saver].loadedAt < reqs[first_saver].savedAt
    /\ reqs[first_saver].op = "upload_image"
    /\ reqs[last_saver].op = "partial_update"
    /\ books[the_book].image = NoImage
    /\ books[the_book].title = "T2"

====
